---- MODULE Spec2Model ----
(***************************************************************************)
(* Word-boundary editing over segmented (Chinese) text:                    *)
(* src/editor/chinese-segmentation.js.                                     *)
(*                                                                         *)
(* Offsets are 0-based as in the source: the character at document offset  *)
(* i is doc[i + 1], and the slice [from, to) is SubSeq(doc, from + 1, to). *)
(* A text is a sequence of one-character strings.                          *)
(***************************************************************************)
EXTENDS Integers, Sequences, FiniteSets, TLC

VARIABLES doc, sel, readOnly, dict, last, query,
          visibleRanges, decorations, lastUpdate, presses

vars == <<doc, sel, readOnly, dict, last, query,
          visibleRanges, decorations, lastUpdate, presses>>

\* The state of the view plugin, and the count of repeated key presses.
pluginVars == <<visibleRanges, decorations, lastUpdate>>

(***************************************************************************)
(* Bounds of the model.                                                    *)
(***************************************************************************)
MaxLen == 3
MaxRanges == 2
MaxVisible == 2

(***************************************************************************)
(* Characters.  "A" stands for a code point of U+4E00..U+9FA5, "x" for a   *)
(* Latin letter and "\n" for the line break, which is also the white space *)
(* of the model.                                                           *)
(***************************************************************************)
ChineseChars == {"A"}
Chars == ChineseChars \cup {"x", "\n"}

RECURSIVE SeqsUpTo(_, _)
SeqsUpTo(S, n) ==
    IF n = 0 THEN {<<>>}
    ELSE LET shorter == SeqsUpTo(S, n - 1)
         IN  shorter \cup {Append(t, c) : t \in {u \in shorter : Len(u) = n - 1}, c \in S}

Texts == SeqsUpTo(Chars, MaxLen)

\* The dictionary useDefault loads into the tokenizer holds the word of two
\* characters; the locator is also run with the other dictionaries.
Words == {<<"A", "A">>}
DefaultDictionary == Words
Dictionaries == SUBSET Words

Null == [null |-> TRUE]

Max(S) == CHOOSE m \in S : \A k \in S : k <= m

(***************************************************************************)
(* The tokenizer, segment.doSegment(text): an ordered sequence of words    *)
(* that covers the text exactly.  A Chinese character starts the longest   *)
(* dictionary word that matches there, or else a word of its own; a run of *)
(* Latin letters is one word; a line break is a word.                      *)
(***************************************************************************)
matchesAt(text, i, w) ==
    /\ i + Len(w) - 1 <= Len(text)
    /\ SubSeq(text, i, i + Len(w) - 1) = w

RECURSIVE latinRun(_, _)
latinRun(text, i) ==
    IF i <= Len(text) /\ text[i] = "x" THEN 1 + latinRun(text, i + 1) ELSE 0

wordLenAt(text, i, d) ==
    IF text[i] \in ChineseChars
    THEN Max({1} \cup {Len(w) : w \in {v \in d : matchesAt(text, i, v)}})
    ELSE IF text[i] = "x" THEN latinRun(text, i) ELSE 1

RECURSIVE doSegmentFrom(_, _, _)
doSegmentFrom(text, i, d) ==
    IF i > Len(text) THEN <<>>
    ELSE LET n == wordLenAt(text, i, d)
         IN  <<SubSeq(text, i, i + n - 1)>> \o doSegmentFrom(text, i + n, d)

doSegment(text, d) == doSegmentFrom(text, 1, d)

(***************************************************************************)
(* Segment locator.                                                        *)
(***************************************************************************)
containsChinese(text) == \E i \in 1..Len(text) : text[i] \in ChineseChars

WordInfo(start, end, w) == [from |-> start, to |-> end, word |-> w]

RECURSIVE findAtLoop(_, _, _, _)
findAtLoop(segments, i, currentPos, pos) ==
    IF i > Len(segments) THEN Null
    ELSE LET start == currentPos
             end == start + Len(segments[i])
         IN  IF pos >= start /\ pos < end
             THEN WordInfo(start, end, segments[i])
             ELSE findAtLoop(segments, i + 1, end, pos)

\* Faulty variant of findChineseWordAt: the end of a segment counts as
\* inside it.
RECURSIVE findAtLoopEndInclusive(_, _, _, _)
findAtLoopEndInclusive(segments, i, currentPos, pos) ==
    IF i > Len(segments) THEN Null
    ELSE LET start == currentPos
             end == start + Len(segments[i])
         IN  IF pos >= start /\ pos <= end
             THEN WordInfo(start, end, segments[i])
             ELSE findAtLoopEndInclusive(segments, i + 1, end, pos)

findChineseWordAtEndInclusive(text, pos, d) ==
    IF ~containsChinese(text) THEN Null
    ELSE findAtLoopEndInclusive(doSegment(text, d), 1, 0, pos)

findChineseWordAt(text, pos, d) ==
    IF ~containsChinese(text) THEN Null
    ELSE findAtLoop(doSegment(text, d), 1, 0, pos)

RECURSIVE findNextLoop(_, _, _, _, _, _)
findNextLoop(segments, i, currentPos, prevWord, pos, forward) ==
    IF i > Len(segments) THEN (IF forward THEN Null ELSE prevWord)
    ELSE LET start == currentPos
             end == start + Len(segments[i])
         IN  IF forward
             THEN IF start > pos
                  THEN WordInfo(start, end, segments[i])
                  ELSE findNextLoop(segments, i + 1, end, prevWord, pos, forward)
             ELSE IF start >= pos
                  THEN prevWord
                  ELSE findNextLoop(segments, i + 1, end,
                                    WordInfo(start, end, segments[i]), pos, forward)

\* Faulty variants of findNextChineseWord: a forward test start >= pos, and
\* a backward search that stops at a segment that ends at or after pos.
RECURSIVE findNextLoopGeq(_, _, _, _, _, _)
findNextLoopGeq(segments, i, currentPos, prevWord, pos, forward) ==
    IF i > Len(segments) THEN (IF forward THEN Null ELSE prevWord)
    ELSE LET start == currentPos
             end == start + Len(segments[i])
         IN  IF forward
             THEN IF start >= pos
                  THEN WordInfo(start, end, segments[i])
                  ELSE findNextLoopGeq(segments, i + 1, end, prevWord, pos, forward)
             ELSE IF start >= pos
                  THEN prevWord
                  ELSE findNextLoopGeq(segments, i + 1, end,
                                       WordInfo(start, end, segments[i]), pos, forward)

RECURSIVE findNextLoopEnd(_, _, _, _, _, _)
findNextLoopEnd(segments, i, currentPos, prevWord, pos, forward) ==
    IF i > Len(segments) THEN (IF forward THEN Null ELSE prevWord)
    ELSE LET start == currentPos
             end == start + Len(segments[i])
         IN  IF forward
             THEN IF start > pos
                  THEN WordInfo(start, end, segments[i])
                  ELSE findNextLoopEnd(segments, i + 1, end, prevWord, pos, forward)
             ELSE IF end >= pos
                  THEN prevWord
                  ELSE findNextLoopEnd(segments, i + 1, end,
                                       WordInfo(start, end, segments[i]), pos, forward)

findNextChineseWordGeq(text, pos, forward, d) ==
    IF ~containsChinese(text) THEN Null
    ELSE findNextLoopGeq(doSegment(text, d), 1, 0, Null, pos, forward)

findNextChineseWordEnd(text, pos, forward, d) ==
    IF ~containsChinese(text) THEN Null
    ELSE findNextLoopEnd(doSegment(text, d), 1, 0, Null, pos, forward)

findNextChineseWord(text, pos, forward, d) ==
    IF ~containsChinese(text) THEN Null
    ELSE findNextLoop(doSegment(text, d), 1, 0, Null, pos, forward)

\* The sliceDoc argument of getSegDestFromGroup, on the document d.
sliceDoc(d, from, to) == SubSeq(d, from + 1, to)

\* A destination offset, as opposed to Null.
Dest(n) == [dest |-> n]

\* A faulty variant of getSegDestFromGroup: backward, it takes the length
\* of the first segment.
getSegDestFromGroupFirst(startPos, nextPos, d, dictionary) ==
    LET forward == startPos < nextPos
        text == IF forward THEN sliceDoc(d, startPos, nextPos)
                ELSE sliceDoc(d, nextPos, startPos)
        segments == doSegment(text, dictionary)
        seg == segments[1]
        length == Len(seg)
    IN  IF ~containsChinese(text) THEN Null
        ELSE IF Len(segments) = 0 THEN Null
        ELSE IF forward THEN Dest(startPos + length) ELSE Dest(startPos - length)

getSegDestFromGroup(startPos, nextPos, d, dictionary) ==
    LET forward == startPos < nextPos
        text == IF forward THEN sliceDoc(d, startPos, nextPos)
                ELSE sliceDoc(d, nextPos, startPos)
        segments == doSegment(text, dictionary)
        seg == IF forward THEN segments[1] ELSE segments[Len(segments)]
        length == Len(seg)
    IN  IF ~containsChinese(text) THEN Null
        ELSE IF Len(segments) = 0 THEN Null
        ELSE IF forward THEN Dest(startPos + length) ELSE Dest(startPos - length)

(***************************************************************************)
(* The host editor's state: the document, the selection (a sequence of     *)
(* ranges, kept sorted and disjoint by EditorSelection.create) and the     *)
(* read-only flag.  The cursor association and the index of the main       *)
(* range are not part of the model.                                        *)
(***************************************************************************)
Min(S) == CHOOSE m \in S : \A k \in S : m <= k

Range(a, h) == [anchor |-> a, head |-> h]
Caret(p) == Range(p, p)
From(r) == IF r.anchor <= r.head THEN r.anchor ELSE r.head
To(r) == IF r.anchor <= r.head THEN r.head ELSE r.anchor
Empty(r) == r.anchor = r.head

\* state.doc.lineAt(pos): the line around offset pos.
lineAt(d, pos) ==
    LET breaksBefore == {i \in 1..pos : d[i] = "\n"}
        breaksAfter == {i \in (pos + 1)..Len(d) : d[i] = "\n"}
        from == IF breaksBefore = {} THEN 0 ELSE Max(breaksBefore)
        to == IF breaksAfter = {} THEN Len(d) ELSE Min(breaksAfter) - 1
    IN  [from |-> from, to |-> to, text |-> SubSeq(d, from + 1, to)]

\* EditorSelection.create: the ranges sorted by their start, a range that
\* overlaps the one before it (or a caret that touches it) merged into it.
RECURSIVE insertByFrom(_, _)
insertByFrom(sorted, r) ==
    IF sorted = <<>> THEN <<r>>
    ELSE IF From(sorted[Len(sorted)]) <= From(r) THEN Append(sorted, r)
         ELSE Append(insertByFrom(SubSeq(sorted, 1, Len(sorted) - 1), r),
                     sorted[Len(sorted)])

RECURSIVE sortByFrom(_)
sortByFrom(ranges) ==
    IF ranges = <<>> THEN <<>>
    ELSE insertByFrom(sortByFrom(SubSeq(ranges, 1, Len(ranges) - 1)),
                      ranges[Len(ranges)])

RECURSIVE mergeRanges(_, _)
mergeRanges(acc, rest) ==
    IF rest = <<>> THEN acc
    ELSE LET range == Head(rest)
         IN  IF acc = <<>> THEN mergeRanges(<<range>>, Tail(rest))
             ELSE LET prev == acc[Len(acc)]
                      overlaps == IF Empty(range) THEN From(range) <= To(prev)
                                  ELSE From(range) < To(prev)
                      from == From(prev)
                      to == IF To(range) >= To(prev) THEN To(range) ELSE To(prev)
                      merged == IF range.anchor > range.head THEN Range(to, from)
                                ELSE Range(from, to)
                  IN  IF overlaps
                      THEN mergeRanges(Append(SubSeq(acc, 1, Len(acc) - 1), merged),
                                       Tail(rest))
                      ELSE mergeRanges(Append(acc, range), Tail(rest))

normalized(ranges) == mergeRanges(<<>>, sortByFrom(ranges))

\* What one range's callback hands to state.changeByRange: the offsets it
\* deletes and its new range, or "default" when it calls the host command.
RangeResult(deleted, r) == [kind |-> "range", changes |-> deleted, range |-> r]
DefaultResult == [kind |-> "default", changes |-> {}, range |-> Caret(0)]

mapPos(p, deleted) == p - Cardinality({x \in deleted : x < p})

RECURSIVE removeOffsets(_, _, _)
removeOffsets(d, i, deleted) ==
    IF i > Len(d) THEN <<>>
    ELSE (IF (i - 1) \in deleted THEN <<>> ELSE <<d[i]>>)
         \o removeOffsets(d, i + 1, deleted)

\* state.changeByRange followed by state.update and dispatch: the changes
\* of all ranges in one transaction, every new range mapped through the
\* changes of the other ranges.
changeByRange(st, results) ==
    LET deleted == UNION {results[i].changes : i \in 1..Len(results)}
        ranges == [i \in 1..Len(results) |->
                      Range(mapPos(results[i].range.anchor, deleted),
                            mapPos(results[i].range.head, deleted))]
    IN  [doc |-> removeOffsets(st.doc, 1, deleted), sel |-> normalized(ranges)]

\* What a command has done when control leaves it: the editor's document
\* and selection, the number of transactions dispatched to the view, whether
\* an exception left the command, and its return value if it returned.
Outcome(d, s, n, raised, ret) ==
    [doc |-> d, sel |-> s, dispatched |-> n, raised |-> raised, ret |-> ret]

(***************************************************************************)
(* The host's default commands (@codemirror/commands, left-to-right text). *)
(* Each is a Command: it takes the view, dispatches its own transaction    *)
(* when it changes something, and returns a boolean.                       *)
(***************************************************************************)
categorize(char) ==
    IF char \in {" ", "\n"} THEN "Space" ELSE "Word"

\* view.moveByGroup: over the first character, then over the characters of
\* its category (a group of blanks joins the group that follows it).
RECURSIVE hostMoveByGroup(_, _, _, _)
hostMoveByGroup(d, cur, forward, cat) ==
    IF cur = (IF forward THEN Len(d) ELSE 0) THEN cur
    ELSE LET char == IF forward THEN d[cur + 1] ELSE d[cur]
             next == IF forward THEN cur + 1 ELSE cur - 1
             nextCat == categorize(char)
             group == IF cat \in {"none", "Space"} THEN nextCat ELSE cat
         IN  IF group = nextCat THEN hostMoveByGroup(d, next, forward, group)
             ELSE cur

hostDispatch(st, newDoc, newSel) ==
    Outcome(newDoc, newSel, 1, FALSE, "true")

hostNoChange(st) == Outcome(st.doc, st.sel, 0, FALSE, "false")

\* The new range the host command computes for one range.
cursorGroupRange(st, range, forward) ==
    IF Empty(range)
    THEN Caret(hostMoveByGroup(st.doc, range.head, forward, "none"))
    ELSE Caret(IF forward THEN To(range) ELSE From(range))

selectGroupRange(st, range, forward) ==
    Range(range.anchor, hostMoveByGroup(st.doc, range.head, forward, "none"))

cursorByGroup(st, forward) ==
    LET moved == [i \in 1..Len(st.sel) |-> cursorGroupRange(st, st.sel[i], forward)]
        selection == normalized(moved)
    IN  IF selection = st.sel THEN hostNoChange(st)
        ELSE hostDispatch(st, st.doc, selection)

selectByGroup(st, forward) ==
    LET moved == [i \in 1..Len(st.sel) |-> selectGroupRange(st, st.sel[i], forward)]
        selection == normalized(moved)
    IN  IF selection = st.sel THEN hostNoChange(st)
        ELSE hostDispatch(st, st.doc, selection)

cursorGroupLeft(st) == cursorByGroup(st, FALSE)
cursorGroupRight(st) == cursorByGroup(st, TRUE)
selectGroupLeft(st) == selectByGroup(st, FALSE)
selectGroupRight(st) == selectByGroup(st, TRUE)

\* The end of the group the host deletes from a caret at head; at the end
\* of the line it takes the line break.
RECURSIVE hostDeleteTowards(_, _, _, _, _)
hostDeleteTowards(d, head, pos, cat, forward) ==
    LET line == lineAt(d, head)
    IN  IF pos = (IF forward THEN line.to ELSE line.from)
        THEN IF pos = head /\ (IF forward THEN line.to # Len(d) ELSE line.from # 0)
             THEN (IF forward THEN pos + 1 ELSE pos - 1)
             ELSE pos
        ELSE LET next == IF forward THEN pos + 1 ELSE pos - 1
                 nextChar == IF forward THEN d[pos + 1] ELSE d[pos]
                 nextCat == categorize(nextChar)
             IN  IF cat # "none" /\ nextCat # cat THEN pos
                 ELSE hostDeleteTowards(d, head, next,
                        IF nextChar # " " \/ pos # head THEN nextCat ELSE cat,
                        forward)

deleteGroupRange(st, range, forward) ==
    IF Empty(range)
    THEN LET towards == hostDeleteTowards(st.doc, range.head, range.head,
                                          "none", forward)
             from == IF towards < range.head THEN towards ELSE range.head
             to == IF towards > range.head THEN towards ELSE range.head
         IN  RangeResult(from..(to - 1), IF from = to THEN range ELSE Caret(from))
    ELSE RangeResult(From(range)..(To(range) - 1), Caret(From(range)))

hostDeleteByGroup(st, forward) ==
    LET results == [i \in 1..Len(st.sel) |-> deleteGroupRange(st, st.sel[i], forward)]
        changed == changeByRange(st, results)
    IN  IF st.readOnly THEN hostNoChange(st)
        ELSE IF \A i \in 1..Len(results) : results[i].changes = {} THEN hostNoChange(st)
        ELSE hostDispatch(st, changed.doc, changed.sel)

deleteGroupBackward(st) == hostDeleteByGroup(st, FALSE)
deleteGroupForward(st) == hostDeleteByGroup(st, TRUE)

\* defaultCommand(target)(range): the host command runs on the view, and its
\* return value, a boolean, is then called with the range, which throws a
\* TypeError out of the command.
callDefault(hostOutcome) ==
    Outcome(hostOutcome.doc, hostOutcome.sel, hostOutcome.dispatched, TRUE, "none")

usesDefault(results) == \E i \in 1..Len(results) : results[i].kind = "default"

(***************************************************************************)
(* The command layer.                                                      *)
(***************************************************************************)
\* Faulty variants of deleteRange: a forward deletion that stops at the
\* start of the next segment, and one that skips the test from == to and
\* applies the word logic at the start of a non-empty range.
deleteRangeToStart(st, range, forward, d) ==
    IF From(range) = To(range)
    THEN LET from == From(range)
             line == lineAt(st.doc, from)
             text == line.text
             relativePos == from - line.from
             wordInfo == IF containsChinese(text)
                         THEN findNextChineseWord(text, relativePos, forward, d)
                         ELSE Null
         IN  IF wordInfo # Null
             THEN IF forward
                  THEN RangeResult((line.from + relativePos)..(line.from + wordInfo.from - 1),
                                   Caret(line.from + relativePos))
                  ELSE RangeResult((line.from + wordInfo.from)..(line.from + relativePos - 1),
                                   Caret(line.from + wordInfo.from))
             ELSE DefaultResult
    ELSE RangeResult(From(range)..(To(range) - 1), Caret(From(range)))

deleteRangeNoSelectionCheck(st, range, forward, d) ==
    LET from == From(range)
        line == lineAt(st.doc, from)
        text == line.text
        relativePos == from - line.from
        wordInfo == IF containsChinese(text)
                    THEN findNextChineseWord(text, relativePos, forward, d)
                    ELSE Null
    IN  IF wordInfo # Null
        THEN IF forward
             THEN RangeResult((line.from + relativePos)..(line.from + wordInfo.to - 1),
                              Caret(line.from + relativePos))
             ELSE RangeResult((line.from + wordInfo.from)..(line.from + relativePos - 1),
                              Caret(line.from + wordInfo.from))
        ELSE IF From(range) = To(range) THEN DefaultResult
        ELSE RangeResult(From(range)..(To(range) - 1), Caret(From(range)))

\* The callback of deleteByGroup for one range.
deleteRange(st, range, forward, d) ==
    IF From(range) = To(range)
    THEN LET from == From(range)
             line == lineAt(st.doc, from)
             text == line.text
             relativePos == from - line.from
             wordInfo == IF containsChinese(text)
                         THEN findNextChineseWord(text, relativePos, forward, d)
                         ELSE Null
         IN  IF wordInfo # Null
             THEN IF forward
                  THEN RangeResult((line.from + relativePos)..(line.from + wordInfo.to - 1),
                                   Caret(line.from + relativePos))
                  ELSE RangeResult((line.from + wordInfo.from)..(line.from + relativePos - 1),
                                   Caret(line.from + wordInfo.from))
             ELSE DefaultResult
    ELSE RangeResult(From(range)..(To(range) - 1), Caret(From(range)))

\* A faulty variant of deleteByGroup: it hands over to the host's delete of
\* the other direction.
deleteByGroupOtherDefault(st, forward, d) ==
    LET results == [i \in 1..Len(st.sel) |-> deleteRange(st, st.sel[i], forward, d)]
        changed == changeByRange(st, results)
    IN  IF st.readOnly THEN Outcome(st.doc, st.sel, 0, FALSE, "false")
        ELSE IF usesDefault(results)
        THEN callDefault(IF forward THEN deleteGroupBackward(st)
                         ELSE deleteGroupForward(st))
        ELSE Outcome(changed.doc, changed.sel, 1, FALSE, "true")

\* A faulty variant of deleteByGroup: it does not look at the read-only
\* flag.
deleteByGroupNoGuard(st, forward, d) ==
    LET results == [i \in 1..Len(st.sel) |-> deleteRange(st, st.sel[i], forward, d)]
        changed == changeByRange(st, results)
    IN  IF usesDefault(results)
        THEN callDefault(IF forward THEN deleteGroupForward(st)
                         ELSE deleteGroupBackward(st))
        ELSE Outcome(changed.doc, changed.sel, 1, FALSE, "true")

deleteByGroup(st, forward, d) ==
    LET results == [i \in 1..Len(st.sel) |-> deleteRange(st, st.sel[i], forward, d)]
        changed == changeByRange(st, results)
    IN  IF st.readOnly THEN Outcome(st.doc, st.sel, 0, FALSE, "false")
        ELSE IF usesDefault(results)
        THEN callDefault(IF forward THEN deleteGroupForward(st)
                         ELSE deleteGroupBackward(st))
        ELSE Outcome(changed.doc, changed.sel, 1, FALSE, "true")

\* Faulty variant of moveRange: moving right lands on the end of the next
\* segment.
moveRangeToEnd(st, range, forward, extend, d) ==
    LET pos == range.head
        line == lineAt(st.doc, pos)
        text == line.text
        relativePos == pos - line.from
        wordInfo == IF containsChinese(text)
                    THEN findNextChineseWord(text, relativePos, forward, d)
                    ELSE Null
        newPos == line.from + (IF forward THEN wordInfo.to ELSE wordInfo.from)
    IN  IF wordInfo # Null
        THEN RangeResult({}, IF extend THEN Range(range.anchor, newPos)
                             ELSE Caret(newPos))
        ELSE DefaultResult

\* The callback of moveByGroup for one range.
moveRange(st, range, forward, extend, d) ==
    LET pos == range.head
        line == lineAt(st.doc, pos)
        text == line.text
        relativePos == pos - line.from
        wordInfo == IF containsChinese(text)
                    THEN findNextChineseWord(text, relativePos, forward, d)
                    ELSE Null
        newPos == line.from + wordInfo.from
    IN  IF wordInfo # Null
        THEN RangeResult({}, IF extend THEN Range(range.anchor, newPos)
                             ELSE Caret(newPos))
        ELSE DefaultResult

\* Faulty variant of moveByGroup: the default command of the other kind
\* (plain move for extend, and the reverse).
moveByGroupOtherDefault(st, forward, extend, d) ==
    LET results == [i \in 1..Len(st.sel) |->
                       moveRange(st, st.sel[i], forward, extend, d)]
        changed == changeByRange(st, results)
    IN  IF usesDefault(results)
        THEN callDefault(IF forward
                         THEN (IF extend THEN cursorGroupRight(st)
                               ELSE selectGroupRight(st))
                         ELSE (IF extend THEN cursorGroupLeft(st)
                               ELSE selectGroupLeft(st)))
        ELSE Outcome(changed.doc, changed.sel, 1, FALSE, "true")

moveByGroup(st, forward, extend, d) ==
    LET results == [i \in 1..Len(st.sel) |->
                       moveRange(st, st.sel[i], forward, extend, d)]
        changed == changeByRange(st, results)
    IN  IF usesDefault(results)
        THEN callDefault(IF forward
                         THEN (IF extend THEN selectGroupRight(st)
                               ELSE cursorGroupRight(st))
                         ELSE (IF extend THEN selectGroupLeft(st)
                               ELSE cursorGroupLeft(st)))
        ELSE Outcome(changed.doc, changed.sel, 1, FALSE, "true")

moveWordLeft(st, d) == moveByGroup(st, FALSE, FALSE, d)
moveWordRight(st, d) == moveByGroup(st, TRUE, FALSE, d)
selectWordLeft(st, d) == moveByGroup(st, FALSE, TRUE, d)
selectWordRight(st, d) == moveByGroup(st, TRUE, TRUE, d)
deleteWordBackward(st, d) == deleteByGroup(st, FALSE, d)
deleteWordForward(st, d) == deleteByGroup(st, TRUE, d)

\* A faulty variant of handleDblClick: it selects the segment's offsets
\* within the line, without adding the line's start.
handleDblClickLineRelative(st, coords, d) ==
    LET pos == coords.pos
        line == lineAt(st.doc, pos)
        wordInfo == findChineseWordAt(line.text, pos - line.from, d)
    IN  IF coords = Null THEN [out |-> Outcome(st.doc, st.sel, 0, FALSE, "none"),
                            prevented |-> FALSE]
        ELSE IF wordInfo # Null
        THEN [out |-> Outcome(st.doc, <<Range(wordInfo.from, wordInfo.to)>>,
                              1, FALSE, "none"),
              prevented |-> TRUE]
        ELSE [out |-> Outcome(st.doc, st.sel, 0, FALSE, "none"), prevented |-> FALSE]

\* handleDblClick, with coords the result of view.posAtCoords, Null or
\* [pos |-> offset]: sets prevented when it calls event.preventDefault().
handleDblClick(st, coords, d) ==
    LET pos == coords.pos
        line == lineAt(st.doc, pos)
        wordInfo == findChineseWordAt(line.text, pos - line.from, d)
    IN  IF coords = Null THEN [out |-> Outcome(st.doc, st.sel, 0, FALSE, "none"),
                            prevented |-> FALSE]
        ELSE IF wordInfo # Null
        THEN [out |-> Outcome(st.doc,
                              <<Range(line.from + wordInfo.from, line.from + wordInfo.to)>>,
                              1, FALSE, "none"),
              prevented |-> TRUE]
        ELSE [out |-> Outcome(st.doc, st.sel, 0, FALSE, "none"), prevented |-> FALSE]

(***************************************************************************)
(* The view plugin's decorations.  A decoration set is the sequence of the *)
(* ranges [from, to) the builder was given, in the order it was given      *)
(* them; the builder refuses a range that starts before the one added      *)
(* last.                                                                   *)
(***************************************************************************)
sliceString(d, from, to) == SubSeq(d, from + 1, to)

NewBuilder == [ranges |-> <<>>, raised |-> FALSE]

builderAdd(builder, from, to) ==
    IF builder.raised THEN builder
    ELSE IF builder.ranges # <<>> /\ from < builder.ranges[Len(builder.ranges)].from
    THEN [builder EXCEPT !.raised = TRUE]
    ELSE [builder EXCEPT !.ranges = Append(@, [from |-> from, to |-> to])]

\* The inner loop of buildDecorations: pos is the running offset.
RECURSIVE addSegments(_, _, _, _, _)
addSegments(builder, segments, i, from, pos) ==
    IF i > Len(segments) THEN builder
    ELSE LET start == from + pos
             end == start + Len(segments[i])
         IN  addSegments(builderAdd(builder, start, end), segments, i + 1, from,
                         pos + Len(segments[i]))

\* A faulty variant of the inner loop: start is the running offset alone.
RECURSIVE addSegmentsFromZero(_, _, _, _, _)
addSegmentsFromZero(builder, segments, i, from, pos) ==
    IF i > Len(segments) THEN builder
    ELSE LET start == pos
             end == start + Len(segments[i])
         IN  addSegmentsFromZero(builderAdd(builder, start, end), segments, i + 1, from,
                                 pos + Len(segments[i]))

RECURSIVE buildLoopFromZero(_, _, _, _, _)
buildLoopFromZero(builder, d, ranges, k, dictionary) ==
    IF k > Len(ranges) THEN builder
    ELSE LET text == sliceString(d, ranges[k].from, ranges[k].to)
         IN  buildLoopFromZero(IF containsChinese(text)
                               THEN addSegmentsFromZero(builder, doSegment(text, dictionary),
                                                        1, ranges[k].from, 0)
                               ELSE builder,
                               d, ranges, k + 1, dictionary)

buildDecorationsFromZero(d, ranges, dictionary) ==
    buildLoopFromZero(NewBuilder, d, ranges, 1, dictionary)

\* The outer loop of buildDecorations, over the visible ranges.
RECURSIVE buildLoop(_, _, _, _, _)
buildLoop(builder, d, ranges, k, dictionary) ==
    IF k > Len(ranges) THEN builder
    ELSE LET text == sliceString(d, ranges[k].from, ranges[k].to)
         IN  buildLoop(IF containsChinese(text)
                       THEN addSegments(builder, doSegment(text, dictionary),
                                        1, ranges[k].from, 0)
                       ELSE builder,
                       d, ranges, k + 1, dictionary)

buildDecorations(d, ranges, dictionary) == buildLoop(NewBuilder, d, ranges, 1, dictionary)

\* The constructor's decorations; a build that raises leaves none.
constructed(d, ranges, dictionary) == buildDecorations(d, ranges, dictionary).ranges

\* A faulty variant of update: it rebuilds only when the document changed.
updateDocOnly(held, upd, dictionary) ==
    IF upd.docChanged
    THEN LET built == buildDecorations(upd.doc, upd.visibleRanges, dictionary)
         IN  IF built.raised THEN held ELSE built.ranges
    ELSE held

\* update(update): the decorations the plugin holds afterwards.  A build
\* that raises leaves the assignment undone.
update(held, upd, dictionary) ==
    IF upd.docChanged \/ upd.viewportChanged
    THEN LET built == buildDecorations(upd.doc, upd.visibleRanges, dictionary)
         IN  IF built.raised THEN held ELSE built.ranges
    ELSE held

(***************************************************************************)
(* The editor as a state machine: a key press or a double-click, from any  *)
(* state of the editor, runs one handler to its end.  last records the     *)
(* handler and the state it started from.  Every state a handler leaves is *)
(* a state the editor can start in, so a behaviour follows one invocation: *)
(* a second one would start from a state that Init already holds.          *)
(***************************************************************************)
Target == [doc |-> doc, sel |-> sel, readOnly |-> readOnly]

RangesOf(d) == {Range(a, h) : a \in 0..Len(d), h \in 0..Len(d)}

IsNormalized(s) ==
    \A i \in 2..Len(s) :
        IF Empty(s[i]) THEN From(s[i]) > To(s[i - 1]) ELSE From(s[i]) >= To(s[i - 1])

Selections(d) ==
    UNION {{s \in [1..n -> RangesOf(d)] : IsNormalized(s)} : n \in 1..MaxRanges}

NoOrigin == 0 - 2

NoLast ==
    [op |-> "init", doc |-> <<>>, sel |-> <<Caret(0)>>, dispatched |-> 0,
     raised |-> FALSE, ret |-> "none", prevented |-> FALSE, click |-> Null]

NoUpdate == [docChanged |-> FALSE, viewportChanged |-> FALSE, kept |-> TRUE]

NoPresses == [op |-> "none", line |-> [from |-> 0, to |-> 0], segments |-> 0,
              segmented |-> 0, delegated |-> FALSE]

NoQuery ==
    [fn |-> "none", text |-> <<>>, pos |-> 0, forward |-> TRUE,
     res |-> Null, origin |-> NoOrigin]

Init ==
    /\ doc \in Texts
    /\ sel \in Selections(doc)
    /\ readOnly \in BOOLEAN
    /\ dict = DefaultDictionary
    /\ last = NoLast
    /\ query = NoQuery
    /\ visibleRanges = <<>>
    /\ decorations = <<>>
    /\ lastUpdate = NoUpdate
    /\ presses = NoPresses

Run(op, out, prevented, click) ==
    /\ last.op = "init"
    /\ doc' = out.doc
    /\ sel' = out.sel
    /\ last' = [op |-> op, doc |-> doc, sel |-> sel, dispatched |-> out.dispatched,
                raised |-> out.raised, ret |-> out.ret, prevented |-> prevented,
                click |-> click]
    /\ UNCHANGED <<readOnly, dict, query, pluginVars, presses>>

MoveWordLeft == Run("moveWordLeft", moveWordLeft(Target, dict), FALSE, Null)
MoveWordRight == Run("moveWordRight", moveWordRight(Target, dict), FALSE, Null)
SelectWordLeft == Run("selectWordLeft", selectWordLeft(Target, dict), FALSE, Null)
SelectWordRight == Run("selectWordRight", selectWordRight(Target, dict), FALSE, Null)
DeleteWordBackward == Run("deleteWordBackward", deleteWordBackward(Target, dict), FALSE, Null)
DeleteWordForward == Run("deleteWordForward", deleteWordForward(Target, dict), FALSE, Null)

DblClick ==
    \E coords \in {[pos |-> p] : p \in 0..Len(doc)} \cup {Null} :
        LET r == handleDblClick(Target, coords, dict)
        IN  Run("dblclick", r.out, r.prevented, coords)

Next ==
    \/ MoveWordLeft
    \/ MoveWordRight
    \/ SelectWordLeft
    \/ SelectWordRight
    \/ DeleteWordBackward
    \/ DeleteWordForward
    \/ DblClick

Spec == Init /\ [][Next]_vars

(***************************************************************************)
(* The locator called on its own, on a text and with a dictionary drawn at *)
(* the start, at positions and in directions drawn at each call.  query    *)
(* records the last call; origin is the position of the forward search     *)
(* whose result the call started from, or NoOrigin.                        *)
(***************************************************************************)
Positions(text) == (0 - 1)..(Len(text) + 1)

InitLocator ==
    /\ doc = <<>>
    /\ sel = <<Caret(0)>>
    /\ readOnly = FALSE
    /\ dict \in Dictionaries
    /\ last = NoLast
    /\ \E text \in Texts : query = [NoQuery EXCEPT !.text = text]
    /\ visibleRanges = <<>>
    /\ decorations = <<>>
    /\ lastUpdate = NoUpdate
    /\ presses = NoPresses

CallFindChineseWordAt ==
    /\ \E pos \in Positions(query.text) :
          query' = [fn |-> "findChineseWordAt", text |-> query.text, pos |-> pos,
                    forward |-> TRUE,
                    res |-> findChineseWordAt(query.text, pos, dict),
                    origin |-> NoOrigin]
    /\ UNCHANGED <<doc, sel, readOnly, dict, last, pluginVars, presses>>

CallFindNextChineseWord ==
    /\ \E pos \in Positions(query.text) : \E forward \in BOOLEAN :
          query' = [fn |-> "findNextChineseWord", text |-> query.text, pos |-> pos,
                    forward |-> forward,
                    res |-> findNextChineseWord(query.text, pos, forward, dict),
                    origin |-> NoOrigin]
    /\ UNCHANGED <<doc, sel, readOnly, dict, last, pluginVars, presses>>

\* A backward search started from the segment a forward search has found.
CallFindPreviousFromResult ==
    /\ query.fn = "findNextChineseWord"
    /\ query.forward
    /\ query.res # Null
    /\ query' = [fn |-> "findNextChineseWord", text |-> query.text,
                 pos |-> query.res.from, forward |-> FALSE,
                 res |-> findNextChineseWord(query.text, query.res.from, FALSE, dict),
                 origin |-> query.pos]
    /\ UNCHANGED <<doc, sel, readOnly, dict, last, pluginVars, presses>>

\* getSegDestFromGroup between two offsets of the text.
CallGetSegDestFromGroup ==
    /\ \E startPos \in 0..Len(query.text) : \E nextPos \in 0..Len(query.text) :
          query' = [fn |-> "getSegDestFromGroup", text |-> query.text, pos |-> startPos,
                    next |-> nextPos, forward |-> startPos < nextPos,
                    res |-> getSegDestFromGroup(startPos, nextPos, query.text, dict),
                    origin |-> NoOrigin]
    /\ UNCHANGED <<doc, sel, readOnly, dict, last, pluginVars, presses>>

NextLocator ==
    \/ CallFindChineseWordAt
    \/ CallFindNextChineseWord
    \/ CallFindPreviousFromResult
    \/ CallGetSegDestFromGroup

SpecLocator == InitLocator /\ [][NextLocator]_vars

(***************************************************************************)
(* The view plugin under the host's updates.  The host constructs the      *)
(* plugin on a document and its visible ranges, which are ascending and do *)
(* not overlap, and then calls update with every transaction and every     *)
(* change of the viewport, flagged as what it changed.  lastUpdate records *)
(* the flags of the last update and whether it kept the decorations.       *)
(***************************************************************************)
\* The sequences of at most n ranges [from, to), none empty, within
\* lo..len, each starting where or after the one before ends.
RECURSIVE AscendingRanges(_, _, _)
AscendingRanges(lo, len, n) ==
    IF n = 0 THEN {<<>>}
    ELSE {<<>>} \cup
         UNION {{<<[from |-> a, to |-> b]>> \o rest : rest \in AscendingRanges(b, len, n - 1)} :
                   a \in lo..(len - 1), b \in (lo + 1)..len}

VisibleRangeSets(d) ==
    {ranges \in AscendingRanges(0, Len(d), MaxVisible) :
        \A k \in 1..Len(ranges) : ranges[k].from < ranges[k].to}

\* The visible ranges after a change of the document: what is left of them
\* within the new document.
clipRanges(ranges, len) ==
    LET clipped == [k \in 1..Len(ranges) |->
                       [from |-> IF ranges[k].from < len THEN ranges[k].from ELSE len,
                        to |-> IF ranges[k].to < len THEN ranges[k].to ELSE len]]
        NotEmpty(r) == r.from < r.to
    IN  SelectSeq(clipped, NotEmpty)

\* The documents one change away: a character inserted or removed.
Edits(d) ==
    {SubSeq(d, 1, i) \o <<c>> \o SubSeq(d, i + 1, Len(d)) :
        i \in {j \in 0..Len(d) : Len(d) < MaxLen}, c \in Chars}
    \cup {SubSeq(d, 1, i - 1) \o SubSeq(d, i + 1, Len(d)) : i \in 1..Len(d)}

InitPlugin ==
    /\ doc \in Texts
    /\ visibleRanges \in VisibleRangeSets(doc)
    /\ decorations = constructed(doc, visibleRanges, DefaultDictionary)
    /\ sel = <<Caret(0)>>
    /\ readOnly = FALSE
    /\ dict = DefaultDictionary
    /\ last = NoLast
    /\ query = NoQuery
    /\ lastUpdate = NoUpdate
    /\ presses = NoPresses

ApplyUpdate(newDoc, newRanges, docChanged, viewportChanged) ==
    /\ doc' = newDoc
    /\ visibleRanges' = newRanges
    /\ decorations' = update(decorations,
                             [docChanged |-> docChanged,
                              viewportChanged |-> viewportChanged,
                              doc |-> newDoc, visibleRanges |-> newRanges], dict)
    /\ lastUpdate' = [docChanged |-> docChanged, viewportChanged |-> viewportChanged,
                      kept |-> decorations' = decorations]
    /\ UNCHANGED <<sel, readOnly, dict, last, query, presses>>

\* A transaction that changes the document; the visible ranges are cut to
\* the new document.
UpdateDocChanged ==
    \E newDoc \in Edits(doc) :
        LET newRanges == clipRanges(visibleRanges, Len(newDoc))
        IN  ApplyUpdate(newDoc, newRanges, TRUE, newRanges # visibleRanges)

\* A scroll, a resize or a fold: the viewport is measured again.
UpdateViewportChanged ==
    \E newRanges \in VisibleRangeSets(doc) :
        ApplyUpdate(doc, newRanges, FALSE, TRUE)

\* An update that changes neither, such as a change of the selection.
UpdateOther == ApplyUpdate(doc, visibleRanges, FALSE, FALSE)

NextPlugin ==
    \/ UpdateDocChanged
    \/ UpdateViewportChanged
    \/ UpdateOther

SpecPlugin == InitPlugin /\ [][NextPlugin]_vars

(***************************************************************************)
(* One move command pressed again and again, from a caret.  presses holds  *)
(* the command, the caret's line at the start and the number of its        *)
(* segments, the number of presses that moved by a segment, and whether a  *)
(* press has handed over to the host's default, after which the presses    *)
(* are no longer followed.  The key is pressed for as long as that has not *)
(* happened, and the count stops one past the number of segments.          *)
(***************************************************************************)
InitRepeat ==
    /\ doc \in Texts
    /\ \E p \in 0..Len(doc) :
          /\ sel = <<Caret(p)>>
          /\ \E op \in {"moveWordLeft", "moveWordRight", "selectWordLeft", "selectWordRight"} :
                presses = [op |-> op,
                           line |-> [from |-> lineAt(doc, p).from, to |-> lineAt(doc, p).to],
                           segments |-> Len(doSegment(lineAt(doc, p).text, DefaultDictionary)),
                           segmented |-> 0,
                           delegated |-> FALSE]
    /\ readOnly = FALSE
    /\ dict = DefaultDictionary
    /\ last = NoLast
    /\ query = NoQuery
    /\ visibleRanges = <<>>
    /\ decorations = <<>>
    /\ lastUpdate = NoUpdate

Press(op, out) ==
    /\ presses.op = op
    /\ ~presses.delegated
    /\ presses.segmented <= presses.segments
    /\ doc' = out.doc
    /\ sel' = out.sel
    /\ last' = [op |-> op, doc |-> doc, sel |-> sel, dispatched |-> out.dispatched,
                raised |-> out.raised, ret |-> out.ret, prevented |-> FALSE,
                click |-> Null]
    /\ presses' = IF out.ret = "true"
                  THEN [presses EXCEPT !.segmented = @ + 1]
                  ELSE [presses EXCEPT !.delegated = TRUE]
    /\ UNCHANGED <<readOnly, dict, query, pluginVars>>

PressMoveWordLeft == Press("moveWordLeft", moveWordLeft(Target, dict))
PressMoveWordRight == Press("moveWordRight", moveWordRight(Target, dict))
PressSelectWordLeft == Press("selectWordLeft", selectWordLeft(Target, dict))
PressSelectWordRight == Press("selectWordRight", selectWordRight(Target, dict))

NextRepeat ==
    \/ PressMoveWordLeft
    \/ PressMoveWordRight
    \/ PressSelectWordLeft
    \/ PressSelectWordRight

\* A press is possible exactly when none has handed over yet and the count
\* is not past its stop.
CanPress == ~presses.delegated /\ presses.segmented <= presses.segments

\* The key is pressed for as long as a press is possible: weak fairness of
\* NextRepeat, with CanPress for its enabledness.
KeepsPressing == []<>(~CanPress) \/ []<><<NextRepeat>>_vars

SpecRepeat == InitRepeat /\ [][NextRepeat]_vars /\ KeepsPressing

(***************************************************************************)
(* What the claims say of a segmentation: the spans of its segments, each  *)
(* starting where the lengths of the segments before it add up to.         *)
(***************************************************************************)
RECURSIVE LenBefore(_, _)
LenBefore(segments, i) ==
    IF i <= 1 THEN 0 ELSE LenBefore(segments, i - 1) + Len(segments[i - 1])

Spans(text, d) ==
    LET segments == doSegment(text, d)
    IN  {WordInfo(LenBefore(segments, i), LenBefore(segments, i) + Len(segments[i]),
                  segments[i]) : i \in 1..Len(segments)}

FirstStartingAfter(text, pos, d) ==
    LET after == {s \in Spans(text, d) : s.from > pos}
    IN  IF after = {} THEN Null
        ELSE CHOOSE s \in after : \A t \in after : s.from <= t.from

LastStartingBefore(text, pos, d) ==
    LET before == {s \in Spans(text, d) : s.from < pos}
    IN  IF before = {} THEN Null
        ELSE CHOOSE s \in before : \A t \in before : t.from <= s.from

\* C4: findNextChineseWord returns, forward, the first segment whose start
\* is greater than pos and, backward, the last segment whose start is less
\* than pos; not-found when there is none or the text has no Chinese.
C4_FindNext ==
    query.fn = "findNextChineseWord" =>
        IF ~containsChinese(query.text) THEN query.res = Null
        ELSE IF query.forward
             THEN query.res = FirstStartingAfter(query.text, query.pos, dict)
             ELSE query.res = LastStartingBefore(query.text, query.pos, dict)

\* A forward search from inside a segment of two characters that found the
\* next segment.
C4_Witness ==
    /\ query.fn = "findNextChineseWord"
    /\ query.forward
    /\ query.res # Null
    /\ \E s \in Spans(query.text, dict) :
          /\ containsChinese(s.word)
          /\ s.from < query.pos /\ query.pos < s.to /\ query.res.from = s.to

SingleSegmentAtZero(text, d) == Len(doSegment(text, d)) = 1

\* C5 as stated: with a single segment starting at 0, a backward search
\* from every pos inside the segment returns not-found.
C5_Original ==
    (/\ query.fn = "findNextChineseWord"
     /\ ~query.forward
     /\ SingleSegmentAtZero(query.text, dict)
     /\ 0 <= query.pos
     /\ query.pos < Len(query.text)) => query.res = Null

\* C5 amended: with a single segment starting at 0 in a text with Chinese,
\* a backward search returns not-found only from pos <= 0; from every
\* pos > 0, inside the segment or at its end, it returns that segment.
C5_Amended ==
    (/\ query.fn = "findNextChineseWord"
     /\ ~query.forward
     /\ containsChinese(query.text)
     /\ SingleSegmentAtZero(query.text, dict)) =>
        IF query.pos <= 0 THEN query.res = Null
        ELSE query.res = WordInfo(0, Len(query.text), query.text)

C5_Witness ==
    /\ query.fn = "findNextChineseWord"
    /\ ~query.forward
    /\ SingleSegmentAtZero(query.text, dict)
    /\ 0 < query.pos
    /\ query.pos < Len(query.text)
    /\ query.res = WordInfo(0, Len(query.text), query.text)

\* C6: findChineseWordAt returns the one segment with start <= pos < end,
\* so a boundary belongs to the segment that starts there; not-found when
\* the text has no Chinese or pos is in no segment (pos < 0, pos >= length).
C6_FindAt ==
    query.fn = "findChineseWordAt" =>
        LET inside == {s \in Spans(query.text, dict) :
                          s.from <= query.pos /\ query.pos < s.to}
        IN  /\ Cardinality(inside) <= 1
            /\ IF containsChinese(query.text) /\ inside # {}
               THEN query.res \in inside /\ query.res.to # query.pos
               ELSE query.res = Null
            /\ (query.pos < 0 \/ query.pos >= Len(query.text)) => query.res = Null

\* A position on the boundary of two segments, resolved to the second.
C6_Witness ==
    /\ query.fn = "findChineseWordAt"
    /\ query.res # Null
    /\ query.res.from = query.pos
    /\ \E s \in Spans(query.text, dict) : s.to = query.pos

FullyChinese(text) == Len(text) > 0 /\ \A i \in 1..Len(text) : text[i] \in ChineseChars

\* C10: on a line of Chinese only, the backward search from the start of
\* the segment a forward search from line offset pos has found finds a
\* segment that starts at or before pos.
C10_Symmetry ==
    (/\ query.origin # NoOrigin
     /\ FullyChinese(query.text)
     /\ 0 <= query.origin
     /\ query.origin <= Len(query.text)) =>
        /\ query.res # Null
        /\ query.res.from <= query.origin

C10_Witness ==
    /\ query.origin # NoOrigin
    /\ FullyChinese(query.text)
    /\ query.origin > 0
    /\ query.res # Null
    /\ query.res.from < query.origin

(***************************************************************************)
(* The commands: what the claims say of the state a command leaves, given  *)
(* the state it started from (last.doc, last.sel).                         *)
(***************************************************************************)
MoveOps == {"moveWordLeft", "moveWordRight", "selectWordLeft", "selectWordRight"}
DeleteOps == {"deleteWordBackward", "deleteWordForward"}
CommandOps == MoveOps \cup DeleteOps

Pre == [doc |-> last.doc, sel |-> last.sel, readOnly |-> readOnly]

OpForward(op) == op \in {"moveWordRight", "selectWordRight", "deleteWordForward"}
OpExtend(op) == op \in {"selectWordLeft", "selectWordRight"}

\* The host's default command of the same kind and direction, run on st.
HostDefault(op, st) ==
    CASE op = "moveWordLeft" -> cursorGroupLeft(st)
      [] op = "moveWordRight" -> cursorGroupRight(st)
      [] op = "selectWordLeft" -> selectGroupLeft(st)
      [] op = "selectWordRight" -> selectGroupRight(st)
      [] op = "deleteWordBackward" -> deleteGroupBackward(st)
      [] op = "deleteWordForward" -> deleteGroupForward(st)

LineOf(st, pos) == lineAt(st.doc, pos)

NoChineseOnLine(st, pos) == ~containsChinese(LineOf(st, pos).text)

\* The adjacent segment of the claims, in line-relative offsets: the first
\* segment of the line that starts after pos, or the last that starts
\* before it.
Adjacent(st, pos, forward, d) ==
    LET line == LineOf(st, pos)
    IN  IF ~containsChinese(line.text) THEN Null
        ELSE IF forward THEN FirstStartingAfter(line.text, pos - line.from, d)
        ELSE LastStartingBefore(line.text, pos - line.from, d)

\* C1: on lines without Chinese every command leaves the document and the
\* selection the host's default command leaves from the same state, and a
\* double-click dispatches nothing and does not suppress the default.
C1_FallbackDelegation ==
    /\ (/\ last.op \in CommandOps
        /\ \A i \in 1..Len(last.sel) : NoChineseOnLine(Pre, last.sel[i].head))
       => LET host == HostDefault(last.op, Pre)
          IN  doc = host.doc /\ sel = host.sel
    /\ (/\ last.op = "dblclick"
        /\ last.click # Null
        /\ NoChineseOnLine(Pre, last.click.pos))
       => /\ last.dispatched = 0
          /\ ~last.prevented
          /\ doc = last.doc
          /\ sel = last.sel

\* A delete on a line without Chinese, in a document that has Chinese on
\* another line, that changed the document as the host does.
C1_Witness ==
    /\ last.op \in DeleteOps
    /\ Len(last.sel) = 1
    /\ Empty(last.sel[1])
    /\ NoChineseOnLine(Pre, last.sel[1].head)
    /\ containsChinese(last.doc)
    /\ doc # last.doc
    /\ doc = HostDefault(last.op, Pre).doc

\* The per-range rule: the segmented result where the line has an adjacent
\* segment (or, for a delete, the range is not empty), the host's result
\* for the range otherwise.
TakesSegmentedPath(st, range, op, d) ==
    IF op \in DeleteOps /\ ~Empty(range) THEN TRUE
    ELSE Adjacent(st, range.head, OpForward(op), d) # Null

SegmentedResult(st, range, op, d) ==
    LET line == LineOf(st, range.head)
        seg == Adjacent(st, range.head, OpForward(op), d)
    IN  IF op \in MoveOps
        THEN RangeResult({}, IF OpExtend(op) THEN Range(range.anchor, line.from + seg.from)
                             ELSE Caret(line.from + seg.from))
        ELSE IF ~Empty(range)
        THEN RangeResult(From(range)..(To(range) - 1), Caret(From(range)))
        ELSE IF OpForward(op)
        THEN RangeResult(range.head..(line.from + seg.to - 1), Caret(range.head))
        ELSE RangeResult((line.from + seg.from)..(range.head - 1),
                         Caret(line.from + seg.from))

HostResult(st, range, op) ==
    IF op \in DeleteOps THEN deleteGroupRange(st, range, OpForward(op))
    ELSE IF OpExtend(op) THEN RangeResult({}, selectGroupRange(st, range, OpForward(op)))
    ELSE RangeResult({}, cursorGroupRange(st, range, OpForward(op)))

PerRangeResult(st, op, d) ==
    changeByRange(st, [i \in 1..Len(st.sel) |->
                          IF TakesSegmentedPath(st, st.sel[i], op, d)
                          THEN SegmentedResult(st, st.sel[i], op, d)
                          ELSE HostResult(st, st.sel[i], op)])

AllSegmented(st, op, d) ==
    \A i \in 1..Len(st.sel) : TakesSegmentedPath(st, st.sel[i], op, d)

\* C2: with several ranges a command applies the per-range rule to every
\* range in at most one document update: a selection that mixes carets on
\* a line with an adjacent segment and carets on a line without Chinese gets
\* the segmented result for the first and the host's result for the others
\* (read-only deletes set aside).
C2_MultiRange ==
    (/\ last.op \in CommandOps
     /\ Len(last.sel) > 1
     /\ \A i \in 1..Len(last.sel) : Empty(last.sel[i])
     /\ \E i \in 1..Len(last.sel) : TakesSegmentedPath(Pre, last.sel[i], last.op, dict)
     /\ \E i \in 1..Len(last.sel) : NoChineseOnLine(Pre, last.sel[i].head)
     /\ ~(last.op \in DeleteOps /\ readOnly))
    => LET expected == PerRangeResult(Pre, last.op, dict)
       IN  doc = expected.doc /\ sel = expected.sel /\ last.dispatched <= 1

\* C3: every invocation of a command runs to its end without raising, and
\* dispatches exactly one update or changes nothing.
C3_NoFatalErrors ==
    last.op \in CommandOps =>
        /\ ~last.raised
        /\ \/ last.dispatched = 1
           \/ last.dispatched = 0 /\ doc = last.doc /\ sel = last.sel

\* C7: when the line of every head has Chinese and an adjacent segment in
\* the direction of the move, the new head is the start of that segment,
\* the anchor stays (extend) or joins the head (plain move), the document
\* is unchanged and one update is dispatched.
C7_MoveSegmented ==
    (/\ last.op \in MoveOps
     /\ AllSegmented(Pre, last.op, dict))
    => /\ doc = last.doc
       /\ sel = normalized([i \in 1..Len(last.sel) |->
                   LET range == last.sel[i]
                       line == LineOf(Pre, range.head)
                       newPos == line.from
                                 + Adjacent(Pre, range.head, OpForward(last.op), dict).from
                   IN  IF OpExtend(last.op) THEN Range(range.anchor, newPos)
                       ELSE Caret(newPos)])
       /\ last.dispatched = 1
       /\ ~last.raised

\* An extending move to the right that put the head on the start, not the
\* end, of a segment of two characters and kept the anchor.
C7_Witness ==
    /\ last.op = "selectWordRight"
    /\ Len(last.sel) = 1
    /\ Len(sel) = 1
    /\ LET seg == Adjacent(Pre, last.sel[1].head, TRUE, dict)
           line == LineOf(Pre, last.sel[1].head)
       IN  /\ seg # Null
           /\ seg.to - seg.from = 2
           /\ sel[1].head = line.from + seg.from
           /\ sel[1].head > last.sel[1].head
           /\ sel[1].anchor = last.sel[1].anchor
           /\ sel[1].anchor # sel[1].head

AllCaretsSegmented(st, op, d) ==
    \A i \in 1..Len(st.sel) :
        Empty(st.sel[i]) /\ Adjacent(st, st.sel[i].head, OpForward(op), d) # Null

DeleteExpected(st, op, d) ==
    changeByRange(st, [i \in 1..Len(st.sel) |-> SegmentedResult(st, st.sel[i], op, d)])

\* C8 as stated: a delete from carets whose lines have Chinese and an
\* adjacent segment removes the span up to that segment's far end (forward)
\* or back to its start (backward) and leaves the caret at the span's start.
C8_Original ==
    (/\ last.op \in DeleteOps
     /\ AllCaretsSegmented(Pre, last.op, dict))
    => LET expected == DeleteExpected(Pre, last.op, dict)
       IN  doc = expected.doc /\ sel = expected.sel

\* C8 amended: the same, when the state is not read-only; with a single
\* caret the text before and after the span is the text left.
C8_Amended ==
    (/\ last.op \in DeleteOps
     /\ ~readOnly
     /\ AllCaretsSegmented(Pre, last.op, dict))
    => /\ LET expected == DeleteExpected(Pre, last.op, dict)
          IN  doc = expected.doc /\ sel = expected.sel
       /\ last.dispatched = 1
       /\ ~last.raised
       /\ Len(last.sel) = 1 =>
             LET caret == last.sel[1].head
                 line == LineOf(Pre, caret)
                 seg == Adjacent(Pre, caret, OpForward(last.op), dict)
                 from == IF OpForward(last.op) THEN caret ELSE line.from + seg.from
                 to == IF OpForward(last.op) THEN line.from + seg.to ELSE caret
             IN  /\ doc = SubSeq(last.doc, 1, from)
                          \o SubSeq(last.doc, to + 1, Len(last.doc))
                 /\ sel = <<Caret(from)>>

\* A backward delete from a caret between two segments that removed the
\* segment before the caret and nothing else.
C8_Witness ==
    /\ last.op = "deleteWordBackward"
    /\ ~readOnly
    /\ Len(last.sel) = 1
    /\ Empty(last.sel[1])
    /\ LET seg == Adjacent(Pre, last.sel[1].head, FALSE, dict)
           line == LineOf(Pre, last.sel[1].head)
       IN  /\ seg # Null
           /\ seg.from > 0
           /\ line.from + seg.to = last.sel[1].head
           /\ Len(doc) = Len(last.doc) - (seg.to - seg.from)
           /\ sel = <<Caret(line.from + seg.from)>>

AllNonEmpty(st) == \A i \in 1..Len(st.sel) : ~Empty(st.sel[i])

SelectionDeleted(st) ==
    changeByRange(st, [i \in 1..Len(st.sel) |->
                          RangeResult(From(st.sel[i])..(To(st.sel[i]) - 1),
                                      Caret(From(st.sel[i])))])

\* C9 as stated: a delete on non-empty ranges removes exactly the selected
\* ranges and leaves a caret at the start of each, whatever the direction
\* and the segmentation.
C9_Original ==
    (/\ last.op \in DeleteOps
     /\ AllNonEmpty(Pre))
    => LET expected == SelectionDeleted(Pre)
       IN  doc = expected.doc /\ sel = expected.sel

\* C9 amended: the same, when the state is not read-only; with a single
\* range [from, to) the text left is the text before from and after to.
C9_Amended ==
    (/\ last.op \in DeleteOps
     /\ ~readOnly
     /\ AllNonEmpty(Pre))
    => /\ LET expected == SelectionDeleted(Pre)
          IN  doc = expected.doc /\ sel = expected.sel
       /\ last.dispatched = 1
       /\ ~last.raised
       /\ Len(last.sel) = 1 =>
             /\ doc = SubSeq(last.doc, 1, From(last.sel[1]))
                      \o SubSeq(last.doc, To(last.sel[1]) + 1, Len(last.doc))
             /\ sel = <<Caret(From(last.sel[1]))>>

\* A delete of a selection that cuts through a segment of two characters.
C9_Witness ==
    /\ last.op \in DeleteOps
    /\ ~readOnly
    /\ Len(last.sel) = 1
    /\ ~Empty(last.sel[1])
    /\ \E s \in Spans(LineOf(Pre, last.sel[1].head).text, dict) :
          /\ containsChinese(s.word)
          /\ LineOf(Pre, last.sel[1].head).from + s.from < To(last.sel[1])
          /\ To(last.sel[1]) < LineOf(Pre, last.sel[1].head).from + s.to
    /\ Len(doc) = Len(last.doc) - (To(last.sel[1]) - From(last.sel[1]))
    /\ sel = <<Caret(From(last.sel[1]))>>

\* The segment of the clicked line that contains the clicked offset, as a
\* set of at most one span with offsets relative to the line.
ClickedSpans(st, pos, d) ==
    {s \in Spans(LineOf(st, pos).text, d) :
        /\ containsChinese(LineOf(st, pos).text)
        /\ s.from <= pos - LineOf(st, pos).from
        /\ pos - LineOf(st, pos).from < s.to}

\* C11: a double-click resolved to an offset inside a segment of its line
\* replaces the selection with the single range over that segment, in
\* document offsets, and suppresses the host's default; a double-click
\* resolved to no offset, or to an offset with no segment (a line without
\* Chinese, or the line's end), dispatches nothing, leaves the document and
\* the selection as they were and does not suppress the default.
C11_DblClick ==
    last.op = "dblclick" =>
        LET found == IF last.click = Null THEN {}
                     ELSE ClickedSpans(Pre, last.click.pos, dict)
        IN  /\ doc = last.doc
            /\ ~last.raised
            /\ Cardinality(found) <= 1
            /\ \A s \in found :
                   /\ sel = <<Range(LineOf(Pre, last.click.pos).from + s.from,
                                    LineOf(Pre, last.click.pos).from + s.to)>>
                   /\ last.dispatched = 1
                   /\ last.prevented
            /\ found = {} =>
                   /\ sel = last.sel
                   /\ last.dispatched = 0
                   /\ ~last.prevented

\* A double-click on a segment of a line that is not the first: the
\* selection left is the segment, in document offsets.
C11_Witness ==
    /\ last.op = "dblclick"
    /\ last.click # Null
    /\ LineOf(Pre, last.click.pos).from > 0
    /\ ClickedSpans(Pre, last.click.pos, dict) # {}
    /\ last.prevented
    /\ Len(sel) = 1
    /\ sel[1].anchor >= LineOf(Pre, last.click.pos).from
    /\ sel[1].anchor <= last.click.pos
    /\ sel[1].head > last.click.pos
    /\ sel # last.sel

\* A double-click at the end of a line whose text has Chinese: nothing is
\* dispatched and the default is not suppressed.
C11_WitnessLineEnd ==
    /\ last.op = "dblclick"
    /\ last.click # Null
    /\ containsChinese(LineOf(Pre, last.click.pos).text)
    /\ last.click.pos = LineOf(Pre, last.click.pos).to
    /\ last.dispatched = 0
    /\ ~last.prevented

\* The decorations one visible range is said to contribute: one range per
\* segment of its text, each starting where the one before ends.
Contribution(d, range, dictionary) ==
    LET text == sliceString(d, range.from, range.to)
        segments == doSegment(text, dictionary)
    IN  IF containsChinese(text)
        THEN [i \in 1..Len(segments) |->
                 [from |-> range.from + LenBefore(segments, i),
                  to |-> range.from + LenBefore(segments, i) + Len(segments[i])]]
        ELSE <<>>

RECURSIVE Contributions(_, _, _, _)
Contributions(d, ranges, k, dictionary) ==
    IF k > Len(ranges) THEN <<>>
    ELSE Contribution(d, ranges[k], dictionary) \o Contributions(d, ranges, k + 1, dictionary)

Within(decoration, range) == range.from <= decoration.from /\ decoration.to <= range.to

\* C12: one build over ascending visible ranges that do not overlap gives
\* the builder its ranges in an order it accepts, each not empty and each
\* starting where or after the one before ends; a visible range with
\* Chinese contributes one range per segment of its text, which tile the
\* visible range from its start to its end, and a visible range without
\* Chinese contributes none.
C12_Decorations ==
    LET built == buildDecorations(doc, visibleRanges, dict)
    IN  /\ ~built.raised
        /\ built.ranges = Contributions(doc, visibleRanges, 1, dict)
        /\ \A i \in 1..Len(built.ranges) : built.ranges[i].from < built.ranges[i].to
        /\ \A i \in 2..Len(built.ranges) : built.ranges[i - 1].to <= built.ranges[i].from
        /\ \A k \in 1..Len(visibleRanges) :
               LET inside == {i \in 1..Len(built.ranges) :
                                 Within(built.ranges[i], visibleRanges[k])}
                   text == sliceString(doc, visibleRanges[k].from, visibleRanges[k].to)
               IN  IF containsChinese(text)
                   THEN /\ Cardinality(inside) = Len(doSegment(text, dict))
                        /\ UNION {built.ranges[i].from..(built.ranges[i].to - 1) : i \in inside}
                              = visibleRanges[k].from..(visibleRanges[k].to - 1)
                   ELSE inside = {}

\* Two visible ranges that touch, the second not at the document's start
\* and cutting a dictionary word in two: each is tiled on its own.
C12_Witness ==
    /\ Len(visibleRanges) = 2
    /\ visibleRanges[1].to = visibleRanges[2].from
    /\ containsChinese(sliceString(doc, visibleRanges[1].from, visibleRanges[1].to))
    /\ containsChinese(sliceString(doc, visibleRanges[2].from, visibleRanges[2].to))
    /\ \E s \in Spans(doc, dict) :
          s.from < visibleRanges[2].from /\ visibleRanges[2].from < s.to
    /\ lastUpdate.viewportChanged
    /\ Len(decorations) >= 2
    /\ decorations = buildDecorations(doc, visibleRanges, dict).ranges

\* C13: after the construction and after every update the decorations held
\* are those of a build over the current document and visible ranges, and
\* an update flagged neither docChanged nor viewportChanged keeps the
\* decorations held before it.
C13_Freshness ==
    /\ decorations = Contributions(doc, visibleRanges, 1, dict)
    /\ (~lastUpdate.docChanged /\ ~lastUpdate.viewportChanged) => lastUpdate.kept

\* An update flagged viewportChanged alone after which the decorations
\* held are new and fresh.
C13_Witness ==
    /\ ~lastUpdate.docChanged
    /\ lastUpdate.viewportChanged
    /\ ~lastUpdate.kept
    /\ decorations # <<>>
    /\ decorations = Contributions(doc, visibleRanges, 1, dict)

NoCaretSegmented(st, op, d) ==
    \A i \in 1..Len(st.sel) :
        Empty(st.sel[i]) /\ Adjacent(st, st.sel[i].head, OpForward(op), d) = Null

\* The command went the segmented way: it dispatched its own update, with
\* the segmented result of every range, and returned true.
WentSegmented ==
    LET expected == PerRangeResult(Pre, last.op, dict)
    IN  /\ last.ret = "true"
        /\ last.dispatched = 1
        /\ ~last.raised
        /\ doc = expected.doc
        /\ sel = expected.sel

\* The command handed over to the host's default of its kind and
\* direction: the host's command did what was done, and the command
\* dispatched nothing of its own.
WentDefault ==
    LET host == HostDefault(last.op, Pre)
    IN  /\ last.ret # "true"
        /\ last.dispatched = host.dispatched
        /\ doc = host.doc
        /\ sel = host.sel

Between ==
    IF query.pos < query.next THEN sliceDoc(query.text, query.pos, query.next)
    ELSE sliceDoc(query.text, query.next, query.pos)

\* C15: getSegDestFromGroup finds nothing exactly when the text between
\* startPos and nextPos has no Chinese, which is so when the two are
\* equal; otherwise it returns startPos plus the length of the first
\* segment of that text when startPos < nextPos, and startPos minus the
\* length of the last when startPos > nextPos: an offset other than
\* startPos and not past nextPos.
C15_SegDest ==
    query.fn = "getSegDestFromGroup" =>
        /\ query.res = Null <=> ~containsChinese(Between)
        /\ query.pos = query.next => query.res = Null
        /\ query.res # Null =>
               /\ query.res.dest # query.pos
               /\ IF query.pos < query.next
                  THEN /\ \E s \in Spans(Between, dict) :
                             s.from = 0 /\ query.res.dest = query.pos + (s.to - s.from)
                       /\ query.pos < query.res.dest
                       /\ query.res.dest <= query.next
                  ELSE /\ \E s \in Spans(Between, dict) :
                             s.to = Len(Between)
                             /\ query.res.dest = query.pos - (s.to - s.from)
                       /\ query.res.dest < query.pos
                       /\ query.res.dest >= query.next

\* A backward call over a text whose first segment is longer than its
\* last: the destination is the start of the last segment, short of
\* nextPos.
C15_Witness ==
    /\ query.fn = "getSegDestFromGroup"
    /\ query.pos > query.next
    /\ query.res # Null
    /\ \E s \in Spans(Between, dict) : \E t \in Spans(Between, dict) :
          /\ s.from = 0
          /\ t.to = Len(Between)
          /\ s.to - s.from > t.to - t.from
          /\ query.res.dest = query.pos - (t.to - t.from)
    /\ query.res.dest > query.next

\* A press that moved by a segment moved the head strictly in the
\* direction of the command, within the line, and left the document; and
\* no more presses have done so than the line has segments.
StepsAhead ==
    /\ (last.op \in MoveOps /\ last.ret = "true") =>
           /\ doc = last.doc
           /\ Len(sel) = 1
           /\ IF OpForward(last.op) THEN sel[1].head > last.sel[1].head
              ELSE sel[1].head < last.sel[1].head
           /\ presses.line.from <= sel[1].head
           /\ sel[1].head <= presses.line.to
           /\ LineOf(Target, sel[1].head).from = presses.line.from
    /\ presses.segmented <= presses.segments

\* C16: pressed again and again from a caret, a move command moves the
\* head strictly forward (right) or strictly backward (left) within the
\* line each time it takes the segmented path, takes it at most as many
\* times as the line has segments, and then hands over to the host's
\* default.
C16_Progress == [](StepsAhead) /\ <>(presses.delegated)

\* Two presses of a move to the right that each moved by a segment, and a
\* third that handed over to the host's default.
C16_Witness ==
    /\ presses.op \in {"moveWordRight", "selectWordRight"}
    /\ presses.segmented = 2
    /\ presses.delegated
    /\ last.raised

\* The document d without its offsets from..(to - 1).
Without(d, from, to) == SubSeq(d, 1, from) \o SubSeq(d, to + 1, Len(d))

\* C17: a delete from a single caret that takes the segmented path removes
\* a span that is not empty, lies within the caret's line and has the
\* caret's offset for one of its ends; forward, from a caret at or inside
\* a segment that is not the last of the line, the span ends where the
\* segment after that one ends.
C17_DeletedSpan ==
    (/\ last.op \in DeleteOps
     /\ ~readOnly
     /\ Len(last.sel) = 1
     /\ AllCaretsSegmented(Pre, last.op, dict))
    => LET caret == last.sel[1].head
           line == LineOf(Pre, caret)
           spans == Spans(line.text, dict)
       IN  /\ last.dispatched = 1
           /\ \E from \in line.from..line.to : \E to \in line.from..line.to :
                  /\ from < to
                  /\ from = caret \/ to = caret
                  /\ doc = Without(last.doc, from, to)
                  /\ sel = <<Caret(from)>>
           /\ Len(doc) < Len(last.doc)
           /\ Cardinality({i \in 1..Len(doc) : doc[i] = "\n"})
                 = Cardinality({i \in 1..Len(last.doc) : last.doc[i] = "\n"})
           /\ OpForward(last.op) =>
                  \A s \in spans : \A t \in spans :
                      (/\ s.from <= caret - line.from
                       /\ caret - line.from < s.to
                       /\ t.from = s.to)
                      => doc = Without(last.doc, caret, line.from + t.to)

\* A forward delete from the start of a segment that is not the last: the
\* segment and the one after it are both removed.
C17_Witness ==
    /\ last.op = "deleteWordForward"
    /\ ~readOnly
    /\ Len(last.sel) = 1
    /\ Empty(last.sel[1])
    /\ LET caret == last.sel[1].head
           line == LineOf(Pre, caret)
       IN  \E s \in Spans(line.text, dict) : \E t \in Spans(line.text, dict) :
              /\ containsChinese(line.text)
              /\ s.from = caret - line.from
              /\ t.from = s.to
              /\ Len(last.doc) - Len(doc) = (s.to - s.from) + (t.to - t.from)
              /\ doc = Without(last.doc, caret, line.from + t.to)
              /\ sel = <<Caret(caret)>>

\* C18: in a read-only state the delete commands return false, dispatch
\* nothing and leave the document and the selection as they were, whatever
\* the selection and the text; the move and select commands do not look at
\* the flag, and where every head has an adjacent segment they dispatch
\* their update of the selection all the same.
C18_ReadOnly ==
    readOnly =>
        /\ last.op \in DeleteOps =>
               /\ last.ret = "false"
               /\ last.dispatched = 0
               /\ ~last.raised
               /\ doc = last.doc
               /\ sel = last.sel
        /\ (last.op \in MoveOps /\ AllSegmented(Pre, last.op, dict)) =>
               /\ last.ret = "true"
               /\ last.dispatched = 1
               /\ doc = last.doc
               /\ sel # last.sel

\* A delete of a selection over Chinese in a read-only state: it returned
\* false and removed nothing.
C18_Witness ==
    /\ readOnly
    /\ last.op \in DeleteOps
    /\ Len(last.sel) = 1
    /\ ~Empty(last.sel[1])
    /\ containsChinese(sliceDoc(last.doc, From(last.sel[1]), To(last.sel[1])))
    /\ last.ret = "false"
    /\ doc = last.doc
    /\ sel = last.sel

\* A move in a read-only state that put the caret on the next segment.
C18_WitnessMove ==
    /\ readOnly
    /\ last.op = "moveWordRight"
    /\ Len(last.sel) = 1
    /\ last.ret = "true"
    /\ sel # last.sel

====
